---------------------------- MODULE Spec2Model ----------------------------
(***************************************************************************)
(* ems::Volume (src/emSim/Volume.cpp): a dense 3D scalar field on a       *)
(* regular voxel grid, its construction from a bounding box, its byte     *)
(* buffer, and its two serialisation routines.                            *)
(*                                                                         *)
(* Representation of the C++ types:                                        *)
(*   float     a value that is a multiple of 2^-25, held as the integer    *)
(*             number of such units (Unit = 1.0f); every operation rounds  *)
(*             to 24 significant bits, ties to even, as IEEE-754 binary32  *)
(*             does.  The model's floats have magnitude below 64.          *)
(*   uint32_t  a natural number below 2^31.                                *)
(*   uint64_t  eight base-256 digits, least significant first.            *)
(*   memory    a sequence of bytes (0..255); floats are stored            *)
(*             little-endian (the .mhd header declares MSB = False).      *)
(*   string    a TLC string; a string edited per character (dataUnit) is  *)
(*             a sequence of one-character strings.                        *)
(***************************************************************************)
EXTENDS Integers, Sequences, FiniteSets, TLC

VARIABLES
    _voxelSize,   \* glm::vec3   <<x, y, z>>, floats
    _volumeSize,  \* glm::uvec3  <<x, y, z>>
    _data,        \* the float buffer, as the bytes of its memory
    _origin,      \* glm::vec3
    voxelCount,   \* the value the latest _getVoxelCount() call returned (uint64_t)
    disk,         \* the file system: file name |-> content
    call,         \* the latest call on the object, its arguments and its streams' states
    built,        \* the geometry as the constructor left it
    ncalls        \* number of calls made on the constructed object

vars == <<_voxelSize, _volumeSize, _data, _origin, voxelCount, disk, call, built, ncalls>>

---------------------------------------------------------------------------
(* Bounds of the model *)

\* calls made on one instance after its construction
MaxCalls == 2

---------------------------------------------------------------------------
(* binary32 arithmetic *)

\* 1.0f, in units of 2^-25
Unit == 2^25
\* significand width of binary32
SigBits == 24

sizeofFloat == 4

Abs(n) == IF n < 0 THEN -n ELSE n
Sgn(n) == IF n < 0 THEN -1 ELSE 1

RECURSIVE BitLen(_)
BitLen(n) == IF n = 0 THEN 0 ELSE 1 + BitLen(n \div 2)

\* The natural number n (plus a non-zero fraction below one unit when sticky)
\* rounded to SigBits significant bits, round-to-nearest, ties-to-even.
RoundSig(n, sticky) ==
    LET L == BitLen(n)
    IN  IF L <= SigBits THEN n
        ELSE LET sh   == L - SigBits
                 hi   == n \div (2^sh)
                 lo   == n % (2^sh)
                 half == 2^(sh - 1)
                 up   == \/ lo > half
                         \/ lo = half /\ (sticky \/ hi % 2 = 1)
             IN  (IF up THEN hi + 1 ELSE hi) * (2^sh)

\* the exact integer n as the nearest float
RoundFloat(n) == Sgn(n) * RoundSig(Abs(n), FALSE)

\* float + float, float - float
FAdd(a, b) == RoundFloat(a + b)
FSub(a, b) == RoundFloat(a - b)

\* k fractional bits of r / d (0 <= r < d): <<bits, remainder>>
RECURSIVE FracBits(_, _, _)
FracBits(r, d, k) ==
    IF k = 0 THEN <<0, r>>
    ELSE LET b    == IF 2 * r >= d THEN 1 ELSE 0
             rest == FracBits(2 * r - b * d, d, k - 1)
         IN  <<b * (2^(k - 1)) + rest[1], rest[2]>>

\* a / d in half units (2^-26), truncated, and whether anything was cut off
QuotHalf(a, d) ==
    LET fb == FracBits(a % d, d, 26)
    IN  [q |-> (a \div d) * (2^26) + fb[1], sticky |-> fb[2] # 0]

\* float / float for a >= 0, d > 0
FDiv(a, d) ==
    LET h == QuotHalf(a, d)
    IN  RoundSig(h.q, h.sticky) \div 2

\* The quotient a / d is a float the model represents: a multiple of 2^-25,
\* found from enough quotient bits to round correctly.
DivInModel(a, d) ==
    LET h == QuotHalf(a, d)
        r == RoundSig(h.q, h.sticky)
    IN  /\ a >= 0 /\ d > 0 /\ a \div d < 32
        /\ r % 2 = 0
        /\ h.sticky => BitLen(h.q) > SigBits

\* float / 2.0f (exact in binary32; the model needs the result on its grid)
FHalf(a) == a \div 2

\* static_cast<unsigned>(float), for a float in the range of unsigned:
\* truncation toward zero
FloatToUint(f) == f \div Unit

\* (int) float: truncation toward zero
FloatToInt(f) == Sgn(f) * (Abs(f) \div Unit)

\* (float) unsigned, exact for the model's small values
UintToFloat(n) == RoundFloat(n * Unit)

\* float * float where one factor is a converted small unsigned
FMulUint(n, f) == RoundFloat(n * f)

---------------------------------------------------------------------------
(* Memory: the object representation of a float, and memset *)

\* The four bytes of the binary32 that holds the float f, least significant
\* first: sign (1 bit), biased exponent (8 bits), fraction (23 bits).
FloatBytes(f) ==
    IF f = 0 THEN <<0, 0, 0, 0>>
    ELSE LET a    == Abs(f)
             L    == BitLen(a)
             sig  == IF L <= SigBits THEN a * (2^(SigBits - L))
                                     ELSE a \div (2^(L - SigBits))
             frac == sig - 2^(SigBits - 1)
             bexp == (L - 1) - 25 + 127
             sign == IF f < 0 THEN 1 ELSE 0
         IN  << frac % 256,
                (frac \div 256) % 256,
                (bexp % 2) * 128 + frac \div 65536,
                sign * 128 + bexp \div 2 >>

\* the binary32 in these four bytes is a NaN / is a zero
IsNaN(b) == /\ b[4] % 128 = 127 /\ b[3] >= 128
            /\ (b[3] > 128 \/ b[2] > 0 \/ b[1] > 0)
IsZero(b) == b[1] = 0 /\ b[2] = 0 /\ b[3] = 0 /\ b[4] % 128 = 0

\* operator== of float, on the stored bytes of two floats
FloatEq(b, c) == /\ ~IsNaN(b) /\ ~IsNaN(c)
                 /\ (b = c \/ (IsZero(b) /\ IsZero(c)))

\* std::memset(s, c, n): the first n bytes of s become (unsigned char)c
memset(s, c, n) == [i \in 1..Len(s) |-> IF i <= n THEN c % 256 ELSE s[i]]

\* element i (0-based) of a float buffer held as bytes
Elem(mem, i) == SubSeq(mem, sizeofFloat * i + 1, sizeofFloat * i + sizeofFloat)

\* number of whole floats in a byte sequence
NElems(mem) == Len(mem) \div sizeofFloat

\* p[i] = v through the float* that getData() returns
StoreFloat(mem, i, v) ==
    [k \in 1..Len(mem) |->
        IF k > sizeofFloat * i /\ k <= sizeofFloat * i + sizeofFloat
        THEN FloatBytes(v)[k - sizeofFloat * i] ELSE mem[k]]

---------------------------------------------------------------------------
(* uint64_t arithmetic, on base-256 digits (least significant first) *)

RECURSIVE NatToDigits(_, _)
NatToDigits(n, k) ==
    IF k = 0 THEN <<>> ELSE <<n % 256>> \o NatToDigits(n \div 256, k - 1)

\* a * b for digit sequences, reduced modulo 256^k: the schoolbook product,
\* column by column, with the carry into the next column
RECURSIVE ColumnSum(_, _, _, _)
ColumnSum(a, b, col, i) ==
    IF i > col THEN 0
    ELSE (IF i <= Len(a) /\ col - i + 1 <= Len(b) /\ col - i + 1 >= 1
          THEN a[i] * b[col - i + 1] ELSE 0) + ColumnSum(a, b, col, i + 1)

RECURSIVE MulColumns(_, _, _, _, _)
MulColumns(a, b, k, col, carry) ==
    IF col > k THEN <<>>
    ELSE LET t == ColumnSum(a, b, col, 1) + carry
         IN  <<t % 256>> \o MulColumns(a, b, k, col + 1, t \div 256)

MulMod(a, b, k) == MulColumns(a, b, k, 1, 0)

\* (uint64_t)n for a uint32_t n
Widen64(n) == NatToDigits(n, 8)

\* uint64_t * uint64_t
Mul64(a, b) == MulMod(a, b, 8)

\* the digits as a natural number (for values below 2^31)
RECURSIVE DigitsToNat(_)
DigitsToNat(d) == IF d = <<>> THEN 0 ELSE d[1] + 256 * DigitsToNat(Tail(d))

\* the value fits a model integer
IsSmall(d) == \A i \in 1..Len(d) : (i > 4 => d[i] = 0) /\ (i = 4 => d[i] < 128)

\* the product formed in 32-bit arithmetic and widened afterwards
VoxelCountOf_32bit(size) ==
    MulMod(MulMod(NatToDigits(size[1], 4), NatToDigits(size[2], 4), 4),
           NatToDigits(size[3], 4), 4) \o <<0, 0, 0, 0>>

\* (uint64_t)x * (uint64_t)y * (uint64_t)z for the uvec3 size
VoxelCountOf(size) ==
    Mul64(Mul64(Widen64(size[1]), Widen64(size[2])), Widen64(size[3]))

\* Volume::_getVoxelCount()
_getVoxelCount == VoxelCountOf(_volumeSize)

---------------------------------------------------------------------------
(* Text: std::string and operator<< of std::ostream *)

DigitChar(d) == <<"0", "1", "2", "3", "4", "5", "6", "7", "8", "9">>[d + 1]

\* the characters of a sequence joined into one string
RECURSIVE Join(_)
Join(cs) == IF cs = <<>> THEN "" ELSE cs[1] \o Join(Tail(cs))

\* os << n for an unsigned n
RECURSIVE UintToString(_)
UintToString(n) ==
    IF n < 10 THEN DigitChar(n)
    ELSE UintToString(n \div 10) \o DigitChar(n % 10)

\* the first k decimal digits of r / Unit (0 <= r < Unit)
RECURSIVE FracDigits(_, _)
FracDigits(r, k) ==
    IF k = 0 THEN <<>>
    ELSE <<(10 * r) \div Unit>> \o FracDigits((10 * r) % Unit, k - 1)

\* the decimal digits ds plus one in the last place, carries propagated
RECURSIVE AddOne(_)
AddOne(ds) ==
    IF ds = <<>> THEN <<>>
    ELSE IF ds[Len(ds)] = 9
         THEN AddOne(SubSeq(ds, 1, Len(ds) - 1)) \o <<0>>
         ELSE SubSeq(ds, 1, Len(ds) - 1) \o <<ds[Len(ds)] + 1>>

\* index of the first non-zero digit at or after i (Len + 1 if none)
RECURSIVE FirstNonZero(_, _)
FirstNonZero(ds, i) ==
    IF i > Len(ds) \/ ds[i] # 0 THEN i ELSE FirstNonZero(ds, i + 1)

\* index of the last non-zero digit at or before i (0 if none)
RECURSIVE LastNonZero(_, _)
LastNonZero(ds, i) ==
    IF i = 0 \/ ds[i] # 0 THEN i ELSE LastNonZero(ds, i - 1)

RECURSIVE DigitsToString(_)
DigitsToString(ds) ==
    IF ds = <<>> THEN "" ELSE DigitChar(ds[1]) \o DigitsToString(Tail(ds))

\* the significant digits a stream keeps: the default precision of std::ostream
StreamPrecision == 6

\* the exact decimal expansion of |f|: two integer digits, 25 fraction digits
DecimalDigits(f) ==
    <<(Abs(f) \div Unit) \div 10, (Abs(f) \div Unit) % 10>> \o FracDigits(Abs(f) % Unit, 25)

\* The digits ds cut after prec significant digits, the last one rounded
\* (to nearest, ties to even) on the digits cut off.
RoundDigits(ds, prec) ==
    LET cut == FirstNonZero(ds, 1) + prec - 1
    IN  IF cut >= Len(ds) THEN ds
        ELSE IF \/ ds[cut + 1] > 5
                \/ /\ ds[cut + 1] = 5
                   /\ \/ FirstNonZero(ds, cut + 2) <= Len(ds)
                      \/ ds[cut] % 2 = 1
             THEN AddOne(SubSeq(ds, 1, cut))
             ELSE SubSeq(ds, 1, cut)

RoundDecimal(f, prec) == RoundDigits(DecimalDigits(f), prec)

\* os << f for a float f with the stream's default format (%g): fixed
\* notation, StreamPrecision significant digits, trailing zeros removed.
\* (For f = 0 or 0.0001 <= |f| < 64; the model prints no other float.)
FloatToString(f) ==
    IF f = 0 THEN "0"
    ELSE LET ds   == RoundDecimal(f, StreamPrecision)
             last == LastNonZero(ds, Len(ds))
             int  == IF ds[1] = 0 THEN <<ds[2]>> ELSE <<ds[1], ds[2]>>
         IN  (IF f < 0 THEN "-" ELSE "")
             \o DigitsToString(int)
             \o (IF last > 2 THEN "." \o DigitsToString(SubSeq(ds, 3, last)) ELSE "")

\* std::replace(s.begin(), s.end(), from, to) on a string held as characters:
\* the loop from first to last
RECURSIVE std_replace(_, _, _)
std_replace(s, from, to) ==
    IF s = <<>> THEN <<>>
    ELSE <<IF s[1] = from THEN to ELSE s[1]>> \o std_replace(Tail(s), from, to)

---------------------------------------------------------------------------
(* Collaborators of Volume.cpp that the file calls *)

\* width of the zero-padded time in a file name
SuffixWidth == 5

RECURSIVE ZeroPad(_, _)
ZeroPad(str, w) == IF Len(str) >= w THEN str ELSE ZeroPad("0" \o str, w)

\* createTimeStepSuffix(time): the fixed-width, zero-padded encoding of time
createTimeStepSuffix(time) == ZeroPad(UintToString(time), SuffixWidth)

\* alignedMalloc<float>(count): count floats of uninitialised memory; every
\* byte holds whatever the allocator left there (g)
alignedMalloc(count, g) == [i \in 1..(count * sizeofFloat) |-> g]

\* std::ofstream::open(name, out): on success the file exists and is empty;
\* on failure the stream is in a failed state and the disk is untouched
ofstream_open(d, name, ok) ==
    [disk |-> IF ok THEN (name :> <<>>) @@ d ELSE d, good |-> ok]

\* std::ofstream::write / operator<< : a failed stream writes nothing; a
\* stream whose device accepts only the first `accepted` items fails
ofstream_write(s, name, content, accepted) ==
    IF s.good
    THEN [disk |-> (name :> SubSeq(content, 1, accepted)) @@ s.disk,
          good |-> accepted = Len(content)]
    ELSE s

---------------------------------------------------------------------------
(* Volume::Volume *)

half == Unit \div 2

\* one component of _volumeSize: (max - min + extent) / voxelSize + 0.5f,
\* converted to unsigned
VolumeSizeAxis(vs, ext, mn, mx) ==
    FloatToUint(FAdd(FDiv(FAdd(FSub(mx, mn), ext), vs), half))

VolumeSize(a) ==
    [k \in 1..3 |-> VolumeSizeAxis(a.voxelSize[k], a.extent[k], a.min[k], a.max[k])]

\* _origin: min - extent / 2.0f
Origin(a) == [k \in 1..3 |-> FSub(a.min[k], FHalf(a.extent[k]))]

Vec(x, y, z) == <<x, y, z>>
Args(vs, ext, mn, mx) == [voxelSize |-> vs, extent |-> ext, min |-> mn, max |-> mx]

\* the constructor's arguments are ones the model's floats compute exactly,
\* with min <= max, extent >= 0 and voxelSize > 0 on every axis
ValidAxis(vs, ext, mn, mx) ==
    /\ vs > 0 /\ ext >= 0 /\ mn <= mx
    /\ ext % 2 = 0
    /\ DivInModel(FAdd(FSub(mx, mn), ext), vs)

ValidArgs(a) ==
    \A k \in 1..3 : ValidAxis(a.voxelSize[k], a.extent[k], a.min[k], a.max[k])

\* the buffer as allocated, left as the allocator returned it
CtorData_unzeroed(count, g) == alignedMalloc(count, g)

\* the buffer as the constructor leaves it: allocated, then memset with 0.0f
CtorData(count, g) ==
    memset(alignedMalloc(count, g), FloatToInt(0), count * sizeofFloat)

\* The constructor, for the arguments a (voxelSize, extent, circuitAABB
\* min and max) and allocator garbage g.
Volume(a, g) ==
    /\ call.op = "none"
    /\ ValidArgs(a)
    /\ \E size \in {VolumeSize(a)}, origin \in {Origin(a)} :
       \E count \in {VoxelCountOf(size)} :
          /\ IsSmall(count)
          /\ _voxelSize' = a.voxelSize
          /\ _volumeSize' = size
          /\ voxelCount' = count
          /\ _data' = CtorData(DigitsToNat(count), g)
          /\ _origin' = origin
          /\ built' = [size |-> size, origin |-> origin, voxelSize |-> a.voxelSize]
    /\ call' = [op |-> "Volume", args |-> a]
    /\ UNCHANGED <<disk, ncalls>>

---------------------------------------------------------------------------
(* Accessors *)

getSize_voxelSize == _voxelSize

getSize == _volumeSize
getOrigin == _origin
getVoxelSize == _voxelSize
getData == _data

Constructed == call.op \notin {"none", "init"}

\* the caller stores v in element i through the pointer getData() returns
Poke(i, v) ==
    /\ Constructed /\ ncalls < MaxCalls
    /\ i < NElems(getData)
    /\ _data' = StoreFloat(getData, i, v)
    /\ call' = [op |-> "getData", index |-> i, value |-> v]
    /\ ncalls' = ncalls + 1
    /\ UNCHANGED <<_voxelSize, _volumeSize, _origin, voxelCount, disk, built>>

\* the caller fills the buffer through getData(): element i becomes (float)i
Populate ==
    /\ Constructed /\ ncalls < MaxCalls
    /\ NElems(getData) > 0
    /\ _data' = [k \in 1..Len(getData) |->
                    FloatBytes(UintToFloat((k - 1) \div sizeofFloat))[((k - 1) % sizeofFloat) + 1]]
    /\ call' = [op |-> "getData", index |-> -1, value |-> 0]
    /\ ncalls' = ncalls + 1
    /\ UNCHANGED <<_voxelSize, _volumeSize, _origin, voxelCount, disk, built>>

---------------------------------------------------------------------------
(* Volume::clear *)

clear(value) ==
    /\ Constructed /\ ncalls < MaxCalls
    /\ \E count \in {_getVoxelCount} :
          /\ voxelCount' = count
          /\ _data' = memset(_data, FloatToInt(value), DigitsToNat(count) * sizeofFloat)
    /\ call' = [op |-> "clear", value |-> value]
    /\ ncalls' = ncalls + 1
    /\ UNCHANGED <<_voxelSize, _volumeSize, _origin, disk, built>>

---------------------------------------------------------------------------
(* Volume::writeToFile and Volume::writeToFileMhd *)

\* the bytes handed to output.write when the length omits sizeof(float)
RawDump_countBytes(count) == SubSeq(_data, 1, DigitsToNat(count))

\* output.write((char*)_data.get(), sizeof(float) * _getVoxelCount()), for
\* the count that _getVoxelCount() returned
RawDump(count) == SubSeq(_data, 1, sizeofFloat * DigitsToNat(count))

\* only the first occurrence replaced
VoltUnit_first(dataUnit) ==
    LET hits == {i \in 1..Len(dataUnit) : dataUnit[i] = "A"}
    IN  [i \in 1..Len(dataUnit) |->
            IF i \in hits /\ \A j \in hits : i <= j THEN "V" ELSE dataUnit[i]]

\* voltUnit: a copy of dataUnit, with std::replace(begin, end, 'A', 'V')
VoltUnit(dataUnit) == std_replace(dataUnit, "A", "V")

\* three values as a stream writes them, separated by single spaces
Spaced(x, y, z) == x \o " " \o y \o " " \o z

\* the lines streamed into the info file
InfoLines(timeStep, dataUnit, blueconfig, report, target) ==
    << "# File generated by EMSim tool:",
       "# - BlueConfig: " \o blueconfig,
       "# - Target: " \o target,
       "# - Report: " \o report,
       "# - Time step: " \o FloatToString(timeStep),
       "# - Units: " \o Join(VoltUnit(dataUnit)),
       "# - SizeInVoxels: " \o Spaced(UintToString(_volumeSize[1]),
                                      UintToString(_volumeSize[2]),
                                      UintToString(_volumeSize[3])),
       "# - SizeInMicrons: " \o Spaced(FloatToString(FMulUint(_volumeSize[1], _voxelSize[1])),
                                       FloatToString(FMulUint(_volumeSize[2], _voxelSize[2])),
                                       FloatToString(FMulUint(_volumeSize[3], _voxelSize[3]))),
       "#" >>

\* the lines streamed into the .mhd header
MhdLines(volumeFileName) ==
    << "ObjectType = Image",
       "NDims = 3",
       "BinaryData = True",
       "BinaryDataByteOrderMSB = False",
       "CompressedData = False",
       "TransformMatrix = 1 0 0 0 1 0 0 0 1",
       "Offset = 0 0 0",
       "CenterOfRotation = 0 0 0",
       "AnatomicalOrientation = 0 0 0",
       "ElementSpacing = " \o Spaced(FloatToString(_voxelSize[1]),
                                     FloatToString(_voxelSize[2]),
                                     FloatToString(_voxelSize[3])),
       "DimSize = " \o Spaced(UintToString(_volumeSize[1]),
                              UintToString(_volumeSize[2]),
                              UintToString(_volumeSize[3])),
       "ElementType = MET_FLOAT",
       "ElementDataFile = " \o volumeFileName,
       "" >>

\* what the file system may do during one serialisation call: whether each
\* open succeeds, and whether the device takes all of the dump or half of it
Envs == { e \in [rawOpen : BOOLEAN, rawWrite : {"all", "half"}, txtOpen : BOOLEAN] :
             e.rawWrite = "half" => e.rawOpen }

\* how many of len bytes the device accepts
Accepted(env, len) == IF env.rawWrite = "half" THEN len \div 2 ELSE len

\* The two streams of one serialisation call, one after the other: the raw
\* dump to rawName, then the text lines to txtName, under whatever the file
\* system does (env).  dataAfter is the buffer as the call leaves it.
WriteBoth(op, time, dataUnit, rawName, txtName, lines, dataAfter) ==
    /\ Constructed /\ ncalls < MaxCalls
    /\ \E count \in {_getVoxelCount}, text \in {lines}, raw \in {rawName}, txt \in {txtName} :
       \E dump \in {RawDump(count)}, env \in Envs :
       \E out1 \in {ofstream_open(disk, raw, env.rawOpen)} :
       \E out2 \in {ofstream_write(out1, raw, dump, Accepted(env, Len(dump)))} :
       \E txt1 \in {ofstream_open(out2.disk, txt, env.txtOpen)} :
       \E txt2 \in {ofstream_write(txt1, txt, text, Len(text))} :
          /\ disk' = txt2.disk
          /\ voxelCount' = count
          /\ call' = [op |-> op, time |-> time, dataUnit |-> dataUnit,
                      rawName |-> raw, txtName |-> txt,
                      rawOpened |-> out1.good, rawGood |-> out2.good,
                      txtOpened |-> txt1.good, txtGood |-> txt2.good]
    /\ _data' = dataAfter
    /\ ncalls' = ncalls + 1
    /\ UNCHANGED <<_voxelSize, _volumeSize, _origin, built>>

\* a writer that also resets the buffer for the next time step
writeToFile_resetting(time, timeStep, dataUnit, outputFile, blueconfig, report, target) ==
    WriteBoth("writeToFile", time, dataUnit,
              outputFile \o "_volume_floats_" \o createTimeStepSuffix(time) \o ".raw",
              outputFile \o "_volume_info_" \o createTimeStepSuffix(time) \o ".txt",
              InfoLines(timeStep, dataUnit, blueconfig, report, target),
              memset(_data, 0, Len(_data)))

writeToFile(time, timeStep, dataUnit, outputFile, blueconfig, report, target) ==
    WriteBoth("writeToFile", time, dataUnit,
              outputFile \o "_volume_floats_" \o createTimeStepSuffix(time) \o ".raw",
              outputFile \o "_volume_info_" \o createTimeStepSuffix(time) \o ".txt",
              InfoLines(timeStep, dataUnit, blueconfig, report, target),
              _data)

\* volumeFileName of writeToFileMhd
MhdVolumeFileName(time, outputFile) ==
    outputFile \o "_volume_floats" \o createTimeStepSuffix(time) \o ".raw"

writeToFileMhd(time, dataUnit, outputFile) ==
    WriteBoth("writeToFileMhd", time, dataUnit,
              MhdVolumeFileName(time, outputFile),
              outputFile \o "_volume_floats_" \o createTimeStepSuffix(time) \o ".mhd",
              MhdLines(MhdVolumeFileName(time, outputFile)),
              _data)

---------------------------------------------------------------------------
(* The inputs the model draws *)

\* simulation times, data units, fill values, stored values, allocator bytes
Times == {0, 1}
Units == { <<"n", "A">>, <<"A", "/", "m", "A">> }
MhdUnits == { <<"n", "A">> }
TimeSteps == { Unit \div 8 }
OutputFiles == { "out" }
\* 0.0, -1.5, 3.25, 0.5
FillValues == { 0, -3 * (Unit \div 2), 13 * (Unit \div 4), Unit \div 2 }
\* 1.0 stored in the first or in the last element
StoredValues == { Unit }
StoredAt == { 0, NElems(_data) - 1 }
Garbage == { 0, 205 }

\* the volumes whose life the model follows:
\*   2 x 2 x 2, voxel size 1;
\*   2 x 2 x 1, voxel sizes 1 + 2^-20, 0.5 and 1, padded by 1;
\*   an empty volume (a degenerate bounding box, no padding);
\*   1 x 1 x 1 from an x extent of 0.5 - 2^-25.
LifeArgs ==
    { Args(Vec(Unit, Unit, Unit), Vec(0, 0, 0), Vec(0, 0, 0), Vec(2 * Unit, 2 * Unit, 2 * Unit)),
      Args(Vec(Unit + 32, half, Unit), Vec(Unit, Unit, Unit), Vec(0, 0, 0), Vec(Unit, 0, 0)),
      Args(Vec(Unit, Unit, Unit), Vec(0, 0, 0), Vec(Unit, Unit, Unit), Vec(Unit, Unit, Unit)),
      Args(Vec(Unit, Unit, Unit), Vec(0, 0, 0), Vec(0, 0, 0), Vec(half - 1, Unit, Unit)) }

---------------------------------------------------------------------------
(* The life of one Volume *)

Init ==
    /\ _voxelSize = <<0, 0, 0>>
    /\ _volumeSize = <<0, 0, 0>>
    /\ _data = <<>>
    /\ _origin = <<0, 0, 0>>
    /\ voxelCount = Widen64(0)
    /\ disk = <<>>
    /\ call = [op |-> "none"]
    /\ built = <<>>
    /\ ncalls = 0

Next ==
    \/ \E a \in LifeArgs, g \in Garbage : Volume(a, g)
    \/ \E v \in FillValues : clear(v)
    \/ \E i \in StoredAt, v \in StoredValues : Poke(i, v)
    \/ Populate
    \/ \E t \in Times, ts \in TimeSteps, u \in Units, o \in OutputFiles :
          writeToFile(t, ts, u, o, "BlueConfig", "report", "target")
    \/ \E t \in Times, u \in MhdUnits, o \in OutputFiles :
          writeToFileMhd(t, u, o)

Spec == Init /\ [][Next]_vars

---------------------------------------------------------------------------
(* Construction alone, over many bounding boxes, paddings and voxel sizes *)

\* per axis: voxel sizes 1, 0.5, 1 + 2^-20 and 3; paddings 0, 1 and 1 - 2^-24;
\* minima 0 and 0.25; spans 0, 0.5 - 2^-25, 0.5, 1, 1.5 and 2.5
GeomAxes ==
    { ax \in { <<vs, ext, mn, mn + span>> :
                  vs \in {Unit, half, Unit + 32, 3 * Unit},
                  ext \in {0, Unit, Unit - 2},
                  mn \in {0, Unit \div 4},
                  span \in {0, half - 1, half, Unit, 3 * half, 5 * half} } :
         ValidAxis(ax[1], ax[2], ax[3], ax[4]) }

AxesArgs(x, y, z) ==
    Args(Vec(x[1], y[1], z[1]), Vec(x[2], y[2], z[2]),
         Vec(x[3], y[3], z[3]), Vec(x[4], y[4], z[4]))

GeomArgs ==
    { AxesArgs(x, y, <<Unit, 0, 0, Unit>>) :
         x \in GeomAxes, y \in {<<Unit, 0, 0, Unit>>, <<half, Unit, 0, half - 1>>} }

NextGeom == \E a \in GeomArgs, g \in Garbage : Volume(a, g)

SpecGeom == Init /\ [][NextGeom]_vars

---------------------------------------------------------------------------
(* _getVoxelCount alone, over grid sizes up to the 32-bit range: the object *)
(* in its constructor, _volumeSize initialised and _data about to be       *)
(* allocated                                                               *)

DimSamples == {0, 1, 3, 65536, 2^22, 2147483647}

InitCount ==
    /\ _voxelSize = <<Unit, Unit, Unit>>
    /\ _volumeSize \in [1..3 -> DimSamples]
    /\ _data = <<>>
    /\ _origin = <<0, 0, 0>>
    /\ voxelCount = Widen64(0)
    /\ disk = <<>>
    /\ call = [op |-> "init"]
    /\ built = <<>>
    /\ ncalls = 0

CallGetVoxelCount ==
    /\ call.op = "init"
    /\ voxelCount' = _getVoxelCount
    /\ call' = [op |-> "_getVoxelCount"]
    /\ UNCHANGED <<_voxelSize, _volumeSize, _data, _origin, disk, built, ncalls>>

NextCount == CallGetVoxelCount

SpecCount == InitCount /\ [][NextCount]_vars

---------------------------------------------------------------------------
(* Notions the properties are stated with *)

\* gridSize.x * gridSize.y * gridSize.z, as a number (for the small grids
\* of Spec and SpecGeom)
GridProduct == _volumeSize[1] * _volumeSize[2] * _volumeSize[3]

SerialisationOps == {"writeToFile", "writeToFileMhd"}

\* floor(n / d + 1/2) for n >= 0, d > 0: n / d rounded to the nearest
\* integer, halves up, in exact arithmetic
RoundHalfUp(n, d) == (2 * n + d) \div (2 * d)

\* the exact product of three 32-bit numbers, as twelve base-256 digits
ExactProduct(size) ==
    MulMod(MulMod(NatToDigits(size[1], 4), NatToDigits(size[2], 4), 8),
           NatToDigits(size[3], 4), 12)

\* the unit with every 'A' turned into 'V', position by position
Relabelled(u) == [i \in 1..Len(u) |-> IF u[i] = "A" THEN "V" ELSE u[i]]

\* decimal digits doubled: <<carry out, digits>>
RECURSIVE DoubleDigits(_)
DoubleDigits(ds) ==
    IF ds = <<>> THEN <<0, <<>>>>
    ELSE LET rest == DoubleDigits(Tail(ds))
             t    == 2 * ds[1] + rest[1]
         IN  <<t \div 10, <<t % 10>> \o rest[2]>>

\* the first k binary digits of the decimal fraction 0.ds: <<bits, what is left>>
RECURSIVE FracToBits(_, _)
FracToBits(ds, k) ==
    IF k = 0 THEN <<0, ds>>
    ELSE LET d == DoubleDigits(ds)
             r == FracToBits(d[2], k - 1)
         IN  <<d[1] * (2^(k - 1)) + r[1], r[2]>>

\* The float nearest to the decimal number with digits ds (two integer
\* digits, then the fraction): what reading the printed number back gives.
ParseFloat(ds) ==
    LET fb == FracToBits(SubSeq(ds, 3, Len(ds)), 26)
    IN  RoundSig((10 * ds[1] + ds[2]) * (2^26) + fb[1],
                 FirstNonZero(fb[2], 1) <= Len(fb[2])) \div 2

---------------------------------------------------------------------------
(* Properties *)

\* C1: after clear(v), every element of the buffer reads back as exactly v.
C1_ClearFillsWithValue ==
    call.op = "clear" =>
        \A i \in 0..(GridProduct - 1) :
            FloatEq(Elem(_data, i), FloatBytes(call.value))

\* C2: one writeToFile call produces both the .raw file and the info file,
\* or neither of them.
C2_BothFilesOrNeither ==
    call.op = "writeToFile" =>
        ((call.rawOpened /\ call.rawName \in DOMAIN disk)
            <=> (call.txtOpened /\ call.txtName \in DOMAIN disk))

\* C3: the constructor sets each gridSize component to
\* round((max - min + padding) / voxelSize), halves rounded up, and the
\* component is not negative.
C3_GridSizeIsRoundedQuotient ==
    call.op = "Volume" =>
        \A k \in 1..3 :
            /\ _volumeSize[k] =
                  RoundHalfUp(call.args.max[k] - call.args.min[k] + call.args.extent[k],
                              call.args.voxelSize[k])
            /\ _volumeSize[k] >= 0

\* C4, as claimed: the voxel count always equals the exact product of the
\* three grid dimensions.
C4_CountIsExactProduct ==
    call.op = "_getVoxelCount" =>
        voxelCount \o <<0, 0, 0, 0>> = ExactProduct(_volumeSize)

\* C4, amended: the voxel count equals the product of the three grid
\* dimensions modulo 2^64, each factor widened to 64 bits before multiplying;
\* so it is the exact product whenever that product is below 2^64, also when
\* a partial product exceeds the 32-bit range.
C4_CountIsProductMod64 ==
    call.op = "_getVoxelCount" =>
        /\ voxelCount = SubSeq(ExactProduct(_volumeSize), 1, 8)
        /\ SubSeq(ExactProduct(_volumeSize), 9, 12) = <<0, 0, 0, 0>>
              => voxelCount \o <<0, 0, 0, 0>> = ExactProduct(_volumeSize)

\* a count beyond the 32-bit range has been computed: 65536 * 65536 * 3
C4_Witness ==
    /\ call.op = "_getVoxelCount"
    /\ _volumeSize = <<65536, 65536, 3>>
    /\ voxelCount = <<0, 0, 0, 0, 3, 0, 0, 0>>

\* C5: right after construction the buffer holds gridSize.x * gridSize.y *
\* gridSize.z elements and every one of them is 0.0.
C5_ZeroAfterConstruction ==
    call.op = "Volume" =>
        /\ Len(_data) = sizeofFloat * GridProduct
        /\ \A i \in 0..(GridProduct - 1) : FloatEq(Elem(_data, i), FloatBytes(0))

\* a 2 x 2 x 2 volume has just been constructed
C5_Witness == call.op = "Volume" /\ _volumeSize = <<2, 2, 2>> /\ Len(_data) = 32

\* C6: the .raw file a serialisation call wrote has no header and holds
\* exactly 4 * N bytes that, read back as N floats, are the buffer's elements
\* in buffer order.
C6_RawFileIsTheBuffer ==
    (call.op \in SerialisationOps /\ call.rawGood) =>
        /\ call.rawName \in DOMAIN disk
        /\ Len(disk[call.rawName]) = sizeofFloat * GridProduct
        /\ \A i \in 0..(GridProduct - 1) :
              Elem(disk[call.rawName], i) = Elem(_data, i)

\* a 2 x 2 x 2 grid holding 0, 1, ..., 7 has been dumped and reads back so
C6_Witness ==
    /\ call.op = "writeToFile" /\ call.rawGood
    /\ _volumeSize = <<2, 2, 2>>
    /\ Len(disk[call.rawName]) = 32
    /\ \A i \in 0..7 : Elem(disk[call.rawName], i) = FloatBytes(UintToFloat(i))

\* C7: the Units line of the info file holds dataUnit with every 'A'
\* replaced by 'V' and every other character kept in place.
C7_UnitsLineRelabelled ==
    (call.op = "writeToFile" /\ call.txtGood) =>
        /\ call.txtName \in DOMAIN disk
        /\ disk[call.txtName][6] = "# - Units: " \o Join(Relabelled(call.dataUnit))

\* the unit "nA" has been written as "nV"
C7_Witness ==
    /\ call.op = "writeToFile" /\ call.txtGood
    /\ call.dataUnit = <<"n", "A">>
    /\ disk[call.txtName][6] = "# - Units: nV"

\* C8: in the .mhd header, DimSize lists gridSize and ElementSpacing lists
\* voxelSize (the numbers printed are those values), x, y, z separated by
\* spaces, and ElementDataFile names the raw file the same call wrote.
C8_MhdHeaderMatchesGeometry ==
    (call.op = "writeToFileMhd" /\ call.txtGood) =>
        /\ disk[call.txtName][11] =
              "DimSize = " \o Spaced(UintToString(getSize[1]),
                                     UintToString(getSize[2]),
                                     UintToString(getSize[3]))
        /\ disk[call.txtName][10] =
              "ElementSpacing = " \o Spaced(FloatToString(getVoxelSize[1]),
                                            FloatToString(getVoxelSize[2]),
                                            FloatToString(getVoxelSize[3]))
        /\ \A k \in 1..3 :
              ParseFloat(RoundDecimal(getVoxelSize[k], StreamPrecision)) = getVoxelSize[k]
        /\ disk[call.txtName][13] = "ElementDataFile = " \o call.rawName
        /\ call.rawGood => call.rawName \in DOMAIN disk

\* C9: after any calls, getSize, getOrigin and getVoxelSize return what the
\* constructor set, and the buffer still has gridSize.x * gridSize.y *
\* gridSize.z elements.
C9_GeometryFixed ==
    Constructed =>
        /\ getSize = built.size
        /\ getOrigin = built.origin
        /\ getVoxelSize = built.voxelSize
        /\ Len(getData) = sizeofFloat * (built.size[1] * built.size[2] * built.size[3])

\* a clear or an external write, then a serialisation, on a 2 x 2 x 1 volume
C9_Witness ==
    /\ call.op \in SerialisationOps
    /\ ncalls = 2
    /\ built.size = <<2, 2, 1>>
    /\ \E i \in 0..3 : ~IsZero(Elem(_data, i))

\* C10: a serialisation call leaves every buffer element as it was, and two
\* serialisation calls in a row dump the same raw data.
C10_SerialisationKeepsBuffer ==
    [][ (call'.op \in SerialisationOps /\ ncalls' = ncalls + 1) =>
            /\ _data' = _data
            /\ (call.op \in SerialisationOps /\ call.rawGood /\ call'.rawGood) =>
                  disk'[call'.rawName] = disk[call.rawName] ]_vars

\* two dumps of the same non-empty buffer are on disk, under different names
C10_Witness ==
    /\ call.op = "writeToFileMhd" /\ call.rawGood
    /\ ncalls = 2
    /\ \E n \in DOMAIN disk :
          /\ n # call.rawName
          /\ Len(disk[n]) = 32
          /\ disk[n] = disk[call.rawName]

=============================================================================
